---- MODULE Spec2Model ----
(***************************************************************************)
(* Model of the Acala DEX module (modules/dex/src/lib.rs): liquidity pools *)
(* paired against a base currency, liquidity shares, and the three swap    *)
(* routes.  Balances and shares are u128 in the mock runtime; the model    *)
(* keeps every quantity far below 2^128, so no u128 operation of the       *)
(* handlers overflows inside the explored bounds.                          *)
(***************************************************************************)
EXTENDS Integers, Sequences, FiniteSets, TLC

(* ---------------------------- bounds ----------------------------------- *)
\* balance every endowed account starts with, in every currency (the mock
\* endows 10^18; the model scales it down)
InitialBalance == 2
\* number of calls explored from the genesis state
MaxOps == 3
\* balance every endowed account starts with in the runs of the spec's
\* concrete scenarios, whose amounts go up to 1000
ScenarioBalance == 1000
\* number of calls explored in the scenario runs
MaxScenarioOps == 4
\* balance every endowed account starts with in the runs at the scale of the
\* fixed-point denominator: amounts whose products pass 10^18, as the mock's
\* 10^18 endowment allows, and whose sums stay below 2^31
LargeBalance == 1024000000
\* number of calls explored in the large-balance runs
MaxLargeOps == 2

(* ----------------------- program constants ----------------------------- *)
ALICE == 1
BOB == 2
AUSD == 1
BTC == 2
DOT == 3
\* GetExchangeFee = FixedU128::from_rational(FeeNumerator, FeeDenominator)
FeeNumerator == 1
FeeDenominator == 100

\* the module account MODULE_ID.into_account(); it differs from every signer
account_id == 0
GetBaseCurrencyId == AUSD

CurrencyIds == {AUSD, BTC, DOT}
Signers == {ALICE, BOB}
AccountIds == Signers \cup {account_id}
\* the amounts callers pass: nothing above what one account can hold
Amounts == 0 .. InitialBalance
\* the share amounts callers pass to withdraw_liquidity
ShareAmounts == 0 .. 2 * InitialBalance
\* the amounts and share amounts of the spec's concrete scenarios
ScenarioAmounts == {50, 100, 1000}
ScenarioShareAmounts == {50, 100}
\* the currencies of the scenario runs: the base currency and one pool
ScenarioCurrencyIds == {AUSD, BTC}
\* the amounts and share amounts of the large-balance runs
LargeAmounts == {1, LargeBalance - 1, LargeBalance}

(* ------------------- FixedU128 (orml_utilities) ------------------------ *)
(* A FixedU128 is the u128 n of the value n / 10^18.  n is kept as seven   *)
(* base-10^3 digits <<i, f1, f2, f3, f4, f5, f6>>,                         *)
(*      n = i * 10^18 + f1 * 10^15 + f2 * 10^12 + ... + f5 * 10^3 + f6,    *)
(* and the arithmetic below never forms a product larger than its result,  *)
(* so that it is the exact arithmetic on n whenever the integer operands   *)
(* and the integer result are below 2^31 - 10^6.                           *)
Limb == 1000

\* divisors up to FastLimit are divided into r * Limb directly
FastLimit == 2000000

Max(a, b) == IF a >= b THEN a ELSE b

RECURSIVE Gcd(_, _)
Gcd(a, b) == IF b = 0 THEN a ELSE Gcd(b, a % b)

\* h = <<q, m>> doubled modulo d: <<2q or 2q + 1, 2m mod d>>, for m < d
DoubleMod(h, d) ==
    IF h[2] >= d - h[2] THEN << 2 * h[1] + 1, h[2] - (d - h[2]) >>
    ELSE << 2 * h[1], h[2] + h[2] >>

\* h = <<q, m>> with r added modulo d, for m < d and r < d
AddMod(h, r, d) ==
    IF h[2] >= d - r THEN << h[1] + 1, h[2] - (d - r) >>
    ELSE << h[1], h[2] + r >>

RECURSIVE ScaleDivMod(_, _, _)
\* <<q, m>> with r * k = q * d + m and m < d, for r < d, by doubling: the
\* product r * k itself is never formed
ScaleDivMod(r, k, d) ==
    IF k = 0 THEN <<0, 0>>
    ELSE IF k % 2 = 0 THEN DoubleMod(ScaleDivMod(r, k \div 2, d), d)
    ELSE AddMod(DoubleMod(ScaleDivMod(r, k \div 2, d), d), r, d)

\* one step of the long division by d: the next digit and the next remainder
DivStep(r, d) ==
    IF d <= FastLimit THEN << (r * Limb) \div d, (r * Limb) % d >>
    ELSE ScaleDivMod(r, Limb, d)

RECURSIVE Digits(_, _, _)
\* the next k base-10^3 digits of r / d, for r < d
Digits(r, d, k) ==
    IF k = 0 THEN << >>
    ELSE LET s == DivStep(r, d) IN << s[1] >> \o Digits(s[2], d, k - 1)

(* from_rational fails on a zero denominator.  It returns a FixedU128 and   *)
(* not an Option, so the failure is not a None that a later unwrap_or could *)
(* replace by a number: the call that asked for the ratio stops.            *)
\* what from_rational yields when it fails: no FixedU128
FixedFailed == << -1 >>

\* what a function that returns a balance yields when a from_rational inside
\* it has failed: no balance
BalanceFailed == -1

\* FixedU128::from_rational(n, d) = floor(n * 10^18 / d), by long division;
\* it fails when d = 0
from_rational(n, d) ==
    IF d = 0 THEN FixedFailed
    ELSE << n \div d >> \o Digits(n % d, d, 6)

RECURSIVE Carry(_, _, _)
\* floor((f[k] * 10^15 + ... + f[7] * 10^(3 * (k - 2))) * x / 10^18), the carry
\* of the digits from the k-th on into the integer part
Carry(f, x, k) ==
    IF k > 7 THEN 0
    ELSE f[k] * (x \div Limb) + ((f[k] * (x % Limb) + Carry(f, x, k + 1)) \div Limb)

\* FixedU128::checked_mul_int(x) = floor(n * x / 10^18)
checked_mul_int(f, x) == f[1] * x + Carry(f, x, 2)

\* a <= b on FixedU128 (derived Ord on the inner u128): the first digit in
\* which a and b differ, if any, is smaller in a
FixedLeq(a, b) ==
    \A k \in 1 .. 7 : (\A j \in 1 .. k - 1 : a[j] = b[j]) => a[k] <= b[k]

GetExchangeFee == from_rational(FeeNumerator, FeeDenominator)

(* FixedU128::from_natural(1).checked_sub(fee).and_then(1.checked_div(_)): *)
(* 1 - fee is exactly (FeeDenominator - FeeNumerator) / FeeDenominator, so *)
(* the quotient floor(10^36 / (1 - fee).n) is floor(10^18 * D / (D - N)).  *)
\* None when fee > 1 (checked_sub) or fee = 1 (checked_div by zero)
FixedNone == << >>

OneDivOneMinusFee ==
    IF FeeNumerator >= FeeDenominator THEN FixedNone
    ELSE LET g == Gcd(FeeDenominator, FeeDenominator - FeeNumerator)
         IN  from_rational(FeeDenominator \div g, (FeeDenominator - FeeNumerator) \div g)

(* ------------------------------ state ---------------------------------- *)
VARIABLES
    LiquidityPool,   \* currency -> <<other reserve, base reserve>>
    TotalShares,     \* currency -> shares
    Shares,          \* currency -> account -> shares
    Tokens,          \* ledger of orml_tokens: currency -> account -> free balance
    event,           \* the event deposited by the last call, or NoEvent
    call,            \* the last call: its operation, arguments and result
    ops,             \* number of calls made so far
    overflow_checks  \* the build: TRUE when integer arithmetic is checked (a
                     \* result out of range panics), FALSE when it wraps

vars == <<LiquidityPool, TotalShares, Shares, Tokens, event, call, ops, overflow_checks>>

NoEvent == <<"None">>

(* ------------------------ ledger (orml_tokens) ------------------------- *)
\* MultiCurrency::ensure_can_withdraw(cy, who, amount).is_ok()
ensure_can_withdraw(tok, cy, who, amount) == tok[cy][who] >= amount

\* MultiCurrency::transfer(cy, from, to, amount), applied to a ledger the
\* ledger tok: ok is FALSE (Err) when the payer's balance is too low
transfer(tok, cy, from, to, amount) ==
    IF tok[cy][from] < amount THEN [ok |-> FALSE, tok |-> tok]
    ELSE IF from = to THEN [ok |-> TRUE, tok |-> tok]
    ELSE [ok |-> TRUE,
          tok |-> [tok EXCEPT ![cy][from] = @ - amount, ![cy][to] = @ + amount]]

(* --------------------------- pricing engine ---------------------------- *)
calculate_swap_target_amount_unguarded(supply_pool, target_pool, supply_amount) ==
    LET ratio == from_rational(supply_pool, supply_pool + supply_amount)
        new_target_pool == checked_mul_int(ratio, target_pool)
        n == target_pool - new_target_pool
    IN  IF ratio = FixedFailed THEN BalanceFailed
        ELSE n - checked_mul_int(GetExchangeFee, n)

calculate_swap_target_amount_at_par(supply_pool, target_pool, supply_amount) == supply_amount

calculate_swap_target_amount(supply_pool, target_pool, supply_amount) ==
    LET ratio == from_rational(supply_pool, supply_pool + supply_amount)
        \* supply_pool * target_pool / (supply_amount + supply_pool)
        new_target_pool == checked_mul_int(ratio, target_pool)
    IN  IF ratio = FixedFailed THEN BalanceFailed
        ELSE IF new_target_pool # 0
        THEN IF target_pool < new_target_pool THEN 0
             ELSE LET n == target_pool - new_target_pool
                      fee == checked_mul_int(GetExchangeFee, n)
                  IN  IF n < fee THEN 0 ELSE n - fee
        ELSE 0

calculate_swap_supply_amount(supply_pool, target_pool, target_amount) ==
    IF OneDivOneMinusFee = FixedNone THEN 0
    ELSE LET needed == checked_mul_int(OneDivOneMinusFee, target_amount)
         IN  IF target_pool < needed THEN 0
             ELSE LET n == target_pool - needed
                      ratio == from_rational(supply_pool, n)
                      m == checked_mul_int(ratio, target_pool)
                  IN  IF ratio = FixedFailed THEN BalanceFailed
                      ELSE IF m < supply_pool THEN 0 ELSE m - supply_pool

(* --------------------------- call outcomes ----------------------------- *)
\* an operation that returns Err(e): storage and ledger are left as they are
Fail(e) ==
    [result |-> e, LiquidityPool |-> LiquidityPool, TotalShares |-> TotalShares,
     Shares |-> Shares, Tokens |-> Tokens, event |-> NoEvent]

\* a from_rational that fails stops the call that asked for the ratio; every
\* from_rational of the module comes before the first transfer and the first
\* write of its call, so storage and ledger are as before
FromRationalFailed ==
    [result |-> "FromRationalFailed", LiquidityPool |-> LiquidityPool,
     TotalShares |-> TotalShares, Shares |-> Shares, Tokens |-> Tokens,
     event |-> NoEvent]

\* a failed .expect("never failed because after checks"), or an integer
\* underflow in a build with overflow checks, stops the call where it is: the
\* writes made before it are in place (nothing in the module undoes them)
\* and no event is deposited
Panic(pool, total, shares, tok) ==
    [result |-> "Panic", LiquidityPool |-> pool, TotalShares |-> total,
     Shares |-> shares, Tokens |-> tok, event |-> NoEvent]

(* In a build without overflow checks a u128 subtraction below zero wraps   *)
(* modulo 2^128.  The wrapped value 2^128 - k is far outside the integers   *)
(* this model computes with, so it is kept as the record Wrapped(k) and is  *)
(* never read as a number: the model gives the outcome of the call that     *)
(* wraps, and has no outcome for a later call that would compute with the   *)
(* wrapped value.                                                           *)
Wrapped(k) == [two_pow_128_minus |-> k]

\* a - b on u128 once the checked builds have panicked: lines 202-207,
\* 309-312, 348-351, 406-419
wrapping_sub(a, b) == IF a >= b THEN a - b ELSE Wrapped(b - a)

Commit(pool, total, shares, tok, ev) ==
    [result |-> "Ok", LiquidityPool |-> pool, TotalShares |-> total,
     Shares |-> shares, Tokens |-> tok, event |-> ev]

(* ------------------------- storage mutations --------------------------- *)
mint_shares_everyone(who, currency_id, share_increment) ==
    [TotalShares |-> [TotalShares EXCEPT ![currency_id] = @ + share_increment],
     Shares |-> [Shares EXCEPT ![currency_id] = [a \in Signers |-> @[a] + share_increment]]]

\* add_liquidity, lines 160-161: TotalShares and Shares gain share_increment
mint_shares(who, currency_id, share_increment) ==
    [TotalShares |-> [TotalShares EXCEPT ![currency_id] = @ + share_increment],
     Shares |-> [Shares EXCEPT ![currency_id][who] = @ + share_increment]]

burn_shares_total_only(who, currency_id, share_amount) ==
    [TotalShares |-> [TotalShares EXCEPT ![currency_id] = wrapping_sub(@, share_amount)],
     Shares |-> Shares]

burn_shares_holder_only(who, currency_id, share_amount) ==
    [TotalShares |-> TotalShares,
     Shares |-> [Shares EXCEPT ![currency_id][who] = wrapping_sub(@, share_amount)]]

\* withdraw_liquidity, lines 202-203: TotalShares and Shares lose share_amount
burn_shares(who, currency_id, share_amount) ==
    [TotalShares |-> [TotalShares EXCEPT ![currency_id] = wrapping_sub(@, share_amount)],
     Shares |-> [Shares EXCEPT ![currency_id][who] = wrapping_sub(@, share_amount)]]

mutate_pools_base_lost(supply_id, supply_amount, target_id, target_amount, intermediate) ==
    LET pool1 == [LiquidityPool EXCEPT ![supply_id] =
                    << @[1] + supply_amount, wrapping_sub(@[2], intermediate) >>]
    IN  [pool1 EXCEPT ![target_id] = << wrapping_sub(@[1], target_amount), @[2] >>]

mutate_pools_supply_not_debited(supply_id, supply_amount, target_id, target_amount, intermediate) ==
    LET pool1 == [LiquidityPool EXCEPT ![supply_id] = << @[1] + supply_amount, @[2] >>]
    IN  [pool1 EXCEPT ![target_id] = << wrapping_sub(@[1], target_amount), @[2] + intermediate >>]

\* swap_other_to_other, lines 406-419: the two mutate calls, one after the other
mutate_pools_other_to_other(supply_id, supply_amount, target_id, target_amount, intermediate) ==
    LET pool1 == [LiquidityPool EXCEPT ![supply_id] =
                    << @[1] + supply_amount, wrapping_sub(@[2], intermediate) >>]
    IN  [pool1 EXCEPT ![target_id] = << wrapping_sub(@[1], target_amount), @[2] + intermediate >>]

\* the ensure! on the priced amount, lines 299-302, 338-341 and 387-390
acceptable_price(amount, min_amount) == amount >= min_amount

(* ------------------------------ add_liquidity -------------------------- *)
liquidity_increment_generous(other_currency_id, max_other_currency_amount, max_base_currency_amount) ==
    LET total_shares == TotalShares[other_currency_id]
        other_currency_pool == LiquidityPool[other_currency_id][1]
        base_currency_pool == LiquidityPool[other_currency_id][2]
        other_base_price == from_rational(base_currency_pool, other_currency_pool)
        input_other_base_price == from_rational(max_base_currency_amount, max_other_currency_amount)
    IN  IF total_shares = 0
        THEN << max_other_currency_amount, max_base_currency_amount,
                Max(max_other_currency_amount, max_base_currency_amount) >>
        ELSE IF other_base_price = FixedFailed \/ input_other_base_price = FixedFailed
        THEN FixedFailed
        ELSE IF FixedLeq(input_other_base_price, other_base_price)
        THEN LET base_other_price == from_rational(other_currency_pool, base_currency_pool)
                 other_currency_amount == checked_mul_int(base_other_price, max_base_currency_amount)
                 ratio == from_rational(other_currency_amount, other_currency_pool)
                 share == checked_mul_int(ratio, total_shares) + 1
             IN  IF base_other_price = FixedFailed \/ ratio = FixedFailed THEN FixedFailed
                 ELSE << other_currency_amount, max_base_currency_amount, share >>
        ELSE LET base_currency_amount == checked_mul_int(other_base_price, max_other_currency_amount)
                 ratio == from_rational(base_currency_amount, base_currency_pool)
                 share == checked_mul_int(ratio, total_shares) + 1
             IN  IF ratio = FixedFailed THEN FixedFailed
                 ELSE << max_other_currency_amount, base_currency_amount, share >>

\* lines 99-144: <<other increment, base increment, share increment>>, or
\* FixedFailed when one of its from_rational calls fails
liquidity_increment(other_currency_id, max_other_currency_amount, max_base_currency_amount) ==
    LET total_shares == TotalShares[other_currency_id]
        other_currency_pool == LiquidityPool[other_currency_id][1]
        base_currency_pool == LiquidityPool[other_currency_id][2]
        other_base_price == from_rational(base_currency_pool, other_currency_pool)
        input_other_base_price == from_rational(max_base_currency_amount, max_other_currency_amount)
    IN  IF total_shares = 0
        THEN << max_other_currency_amount, max_base_currency_amount,
                Max(max_other_currency_amount, max_base_currency_amount) >>
        ELSE IF other_base_price = FixedFailed \/ input_other_base_price = FixedFailed
        THEN FixedFailed
        ELSE IF FixedLeq(input_other_base_price, other_base_price)
        THEN LET base_other_price == from_rational(other_currency_pool, base_currency_pool)
                 other_currency_amount == checked_mul_int(base_other_price, max_base_currency_amount)
                 ratio == from_rational(other_currency_amount, other_currency_pool)
                 share == checked_mul_int(ratio, total_shares)
             IN  IF base_other_price = FixedFailed \/ ratio = FixedFailed THEN FixedFailed
                 ELSE << other_currency_amount, max_base_currency_amount, share >>
        ELSE LET base_currency_amount == checked_mul_int(other_base_price, max_other_currency_amount)
                 ratio == from_rational(base_currency_amount, base_currency_pool)
                 share == checked_mul_int(ratio, total_shares)
             IN  IF ratio = FixedFailed THEN FixedFailed
                 ELSE << max_other_currency_amount, base_currency_amount, share >>

add_liquidity(who, other_currency_id, max_other_currency_amount, max_base_currency_amount) ==
    LET base_currency_id == GetBaseCurrencyId
        inc == liquidity_increment(other_currency_id, max_other_currency_amount,
                                   max_base_currency_amount)
        other_currency_increment == inc[1]
        base_currency_increment == inc[2]
        share_increment == inc[3]
        t1 == transfer(Tokens, other_currency_id, who, account_id, other_currency_increment)
        t2 == transfer(t1.tok, base_currency_id, who, account_id, base_currency_increment)
    IN  IF other_currency_id = base_currency_id THEN Fail("BaseCurrencyIdNotAllowed")
        ELSE IF ~(max_other_currency_amount # 0 /\ max_base_currency_amount # 0)
        THEN Fail("InvalidBalance")
        ELSE IF inc = FixedFailed THEN FromRationalFailed
        ELSE IF ~(share_increment > 0 /\ other_currency_increment > 0
                  /\ base_currency_increment > 0)
        THEN Fail("InvalidLiquidityIncrement")
        ELSE IF ~(/\ ensure_can_withdraw(Tokens, base_currency_id, who, base_currency_increment)
                  /\ ensure_can_withdraw(Tokens, other_currency_id, who, other_currency_increment))
        THEN Fail("TokenNotEnough")
        ELSE IF ~t1.ok THEN Panic(LiquidityPool, TotalShares, Shares, Tokens)
        ELSE IF ~t2.ok THEN Panic(LiquidityPool, TotalShares, Shares, t1.tok)
        ELSE Commit(
            [LiquidityPool EXCEPT ![other_currency_id] =
                << @[1] + other_currency_increment, @[2] + base_currency_increment >>],
            mint_shares(who, other_currency_id, share_increment).TotalShares,
            mint_shares(who, other_currency_id, share_increment).Shares,
            t2.tok,
            << "AddLiquidity", who, other_currency_id, other_currency_increment,
               base_currency_increment, share_increment >>)

(* ---------------------------- withdraw_liquidity ----------------------- *)
withdraw_liquidity_keeps_dust(who, currency_id, share_amount) ==
    LET base_currency_id == GetBaseCurrencyId
        other_currency_pool == LiquidityPool[currency_id][1]
        base_currency_pool == LiquidityPool[currency_id][2]
        proportion == from_rational(share_amount, TotalShares[currency_id] + 1)
        withdraw_other_currency_amount == checked_mul_int(proportion, other_currency_pool)
        withdraw_base_currency_amount == checked_mul_int(proportion, base_currency_pool)
        t1 == IF withdraw_other_currency_amount > 0
              THEN transfer(Tokens, currency_id, account_id, who, withdraw_other_currency_amount)
              ELSE [ok |-> TRUE, tok |-> Tokens]
        t2 == IF withdraw_base_currency_amount > 0
              THEN transfer(t1.tok, base_currency_id, account_id, who,
                            withdraw_base_currency_amount)
              ELSE t1
    IN  IF currency_id = base_currency_id THEN Fail("BaseCurrencyIdNotAllowed")
        ELSE IF ~(Shares[currency_id][who] >= share_amount /\ share_amount > 0)
        THEN Fail("ShareNotEnough")
        ELSE IF proportion = FixedFailed THEN FromRationalFailed
        ELSE IF ~t1.ok THEN Panic(LiquidityPool, TotalShares, Shares, Tokens)
        ELSE IF ~t2.ok THEN Panic(LiquidityPool, TotalShares, Shares, t1.tok)
        ELSE IF overflow_checks /\ TotalShares[currency_id] < share_amount
        THEN Panic(LiquidityPool, TotalShares, Shares, t2.tok)
        ELSE IF overflow_checks /\ (\/ other_currency_pool < withdraw_other_currency_amount
                                    \/ base_currency_pool < withdraw_base_currency_amount)
        THEN Panic(LiquidityPool,
                   burn_shares(who, currency_id, share_amount).TotalShares,
                   burn_shares(who, currency_id, share_amount).Shares, t2.tok)
        ELSE Commit(
            [LiquidityPool EXCEPT ![currency_id] =
                << wrapping_sub(@[1], withdraw_other_currency_amount), wrapping_sub(@[2], withdraw_base_currency_amount) >>],
            burn_shares(who, currency_id, share_amount).TotalShares,
            burn_shares(who, currency_id, share_amount).Shares,
            t2.tok,
            << "WithdrawLiquidity", who, currency_id, withdraw_base_currency_amount,
               withdraw_base_currency_amount, share_amount >>)

withdraw_liquidity_rounding_up(who, currency_id, share_amount) ==
    LET base_currency_id == GetBaseCurrencyId
        other_currency_pool == LiquidityPool[currency_id][1]
        base_currency_pool == LiquidityPool[currency_id][2]
        proportion == from_rational(share_amount, TotalShares[currency_id])
        withdraw_other_currency_amount == checked_mul_int(proportion, other_currency_pool) + 1
        withdraw_base_currency_amount == checked_mul_int(proportion, base_currency_pool) + 1
        t1 == transfer(Tokens, currency_id, account_id, who, withdraw_other_currency_amount)
        t2 == transfer(t1.tok, base_currency_id, account_id, who, withdraw_base_currency_amount)
    IN  IF currency_id = base_currency_id THEN Fail("BaseCurrencyIdNotAllowed")
        ELSE IF ~(Shares[currency_id][who] >= share_amount /\ share_amount > 0)
        THEN Fail("ShareNotEnough")
        ELSE IF proportion = FixedFailed THEN FromRationalFailed
        ELSE IF ~t1.ok THEN Panic(LiquidityPool, TotalShares, Shares, Tokens)
        ELSE IF ~t2.ok THEN Panic(LiquidityPool, TotalShares, Shares, t1.tok)
        ELSE IF overflow_checks /\ TotalShares[currency_id] < share_amount
        THEN Panic(LiquidityPool, TotalShares, Shares, t2.tok)
        ELSE IF overflow_checks /\ (\/ other_currency_pool < withdraw_other_currency_amount
                                    \/ base_currency_pool < withdraw_base_currency_amount)
        THEN Panic(LiquidityPool,
                   burn_shares(who, currency_id, share_amount).TotalShares,
                   burn_shares(who, currency_id, share_amount).Shares, t2.tok)
        ELSE Commit(
            [LiquidityPool EXCEPT ![currency_id] =
                << wrapping_sub(@[1], withdraw_other_currency_amount), wrapping_sub(@[2], withdraw_base_currency_amount) >>],
            burn_shares(who, currency_id, share_amount).TotalShares,
            burn_shares(who, currency_id, share_amount).Shares,
            t2.tok,
            << "WithdrawLiquidity", who, currency_id, withdraw_base_currency_amount,
               withdraw_base_currency_amount, share_amount >>)

withdraw_liquidity(who, currency_id, share_amount) ==
    LET base_currency_id == GetBaseCurrencyId
        other_currency_pool == LiquidityPool[currency_id][1]
        base_currency_pool == LiquidityPool[currency_id][2]
        proportion == from_rational(share_amount, TotalShares[currency_id])
        withdraw_other_currency_amount == checked_mul_int(proportion, other_currency_pool)
        withdraw_base_currency_amount == checked_mul_int(proportion, base_currency_pool)
        t1 == IF withdraw_other_currency_amount > 0
              THEN transfer(Tokens, currency_id, account_id, who, withdraw_other_currency_amount)
              ELSE [ok |-> TRUE, tok |-> Tokens]
        t2 == IF withdraw_base_currency_amount > 0
              THEN transfer(t1.tok, base_currency_id, account_id, who,
                            withdraw_base_currency_amount)
              ELSE t1
    IN  IF currency_id = base_currency_id THEN Fail("BaseCurrencyIdNotAllowed")
        ELSE IF ~(Shares[currency_id][who] >= share_amount /\ share_amount > 0)
        THEN Fail("ShareNotEnough")
        ELSE IF proportion = FixedFailed THEN FromRationalFailed
        ELSE IF ~t1.ok THEN Panic(LiquidityPool, TotalShares, Shares, Tokens)
        ELSE IF ~t2.ok THEN Panic(LiquidityPool, TotalShares, Shares, t1.tok)
        ELSE IF overflow_checks /\ TotalShares[currency_id] < share_amount
        THEN Panic(LiquidityPool, TotalShares, Shares, t2.tok)
        ELSE IF overflow_checks /\ (\/ other_currency_pool < withdraw_other_currency_amount
                                    \/ base_currency_pool < withdraw_base_currency_amount)
        THEN Panic(LiquidityPool,
                   burn_shares(who, currency_id, share_amount).TotalShares,
                   burn_shares(who, currency_id, share_amount).Shares, t2.tok)
        ELSE Commit(
            [LiquidityPool EXCEPT ![currency_id] =
                << wrapping_sub(@[1], withdraw_other_currency_amount), wrapping_sub(@[2], withdraw_base_currency_amount) >>],
            burn_shares(who, currency_id, share_amount).TotalShares,
            burn_shares(who, currency_id, share_amount).Shares,
            t2.tok,
            << "WithdrawLiquidity", who, currency_id, withdraw_base_currency_amount,
               withdraw_base_currency_amount, share_amount >>)

(* --------------------------------- swaps ------------------------------- *)
\* use other currency to swap base currency
swap_other_to_base(who, other_currency_id, other_currency_amount, min_base_currency_amount) ==
    LET base_currency_id == GetBaseCurrencyId
        other_currency_pool == LiquidityPool[other_currency_id][1]
        base_currency_pool == LiquidityPool[other_currency_id][2]
        base_currency_amount ==
            calculate_swap_target_amount(other_currency_pool, base_currency_pool,
                                         other_currency_amount)
        t1 == transfer(Tokens, other_currency_id, who, account_id, other_currency_amount)
        t2 == transfer(t1.tok, base_currency_id, account_id, who, base_currency_amount)
    IN  IF ~(/\ other_currency_amount > 0
             /\ ensure_can_withdraw(Tokens, other_currency_id, who, other_currency_amount))
        THEN Fail("TokenNotEnough")
        ELSE IF ~acceptable_price(base_currency_amount, min_base_currency_amount)
        THEN Fail("InacceptablePrice")
        ELSE IF ~t1.ok THEN Panic(LiquidityPool, TotalShares, Shares, Tokens)
        ELSE IF ~t2.ok THEN Panic(LiquidityPool, TotalShares, Shares, t1.tok)
        ELSE IF overflow_checks /\ base_currency_pool < base_currency_amount
        THEN Panic(LiquidityPool, TotalShares, Shares, t2.tok)
        ELSE Commit(
            [LiquidityPool EXCEPT ![other_currency_id] =
                << @[1] + other_currency_amount, wrapping_sub(@[2], base_currency_amount) >>],
            TotalShares, Shares, t2.tok,
            << "Swap", who, other_currency_id, other_currency_amount,
               base_currency_id, base_currency_amount >>)

swap_base_to_other_late_check(who, other_currency_id, base_currency_amount, min_other_currency_amount) ==
    LET base_currency_id == GetBaseCurrencyId
        other_currency_amount ==
            calculate_swap_target_amount(LiquidityPool[other_currency_id][2],
                                         LiquidityPool[other_currency_id][1],
                                         base_currency_amount)
        t1 == transfer(Tokens, base_currency_id, who, account_id, base_currency_amount)
        t2 == transfer(t1.tok, other_currency_id, account_id, who, other_currency_amount)
    IN  IF ~(/\ base_currency_amount > 0
             /\ ensure_can_withdraw(Tokens, base_currency_id, who, base_currency_amount))
        THEN Fail("TokenNotEnough")
        ELSE IF ~acceptable_price(other_currency_amount, min_other_currency_amount)
        THEN [Fail("InacceptablePrice") EXCEPT !.Tokens = t1.tok]
        ELSE Commit(
            [LiquidityPool EXCEPT ![other_currency_id] =
                << wrapping_sub(@[1], other_currency_amount), @[2] + base_currency_amount >>],
            TotalShares, Shares, t2.tok,
            << "Swap", who, base_currency_id, base_currency_amount,
               other_currency_id, other_currency_amount >>)

\* use base currency to swap other currency
swap_base_to_other(who, other_currency_id, base_currency_amount, min_other_currency_amount) ==
    LET base_currency_id == GetBaseCurrencyId
        other_currency_pool == LiquidityPool[other_currency_id][1]
        base_currency_pool == LiquidityPool[other_currency_id][2]
        other_currency_amount ==
            calculate_swap_target_amount(base_currency_pool, other_currency_pool,
                                         base_currency_amount)
        t1 == transfer(Tokens, base_currency_id, who, account_id, base_currency_amount)
        t2 == transfer(t1.tok, other_currency_id, account_id, who, other_currency_amount)
    IN  IF ~(/\ base_currency_amount > 0
             /\ ensure_can_withdraw(Tokens, base_currency_id, who, base_currency_amount))
        THEN Fail("TokenNotEnough")
        ELSE IF ~acceptable_price(other_currency_amount, min_other_currency_amount)
        THEN Fail("InacceptablePrice")
        ELSE IF ~t1.ok THEN Panic(LiquidityPool, TotalShares, Shares, Tokens)
        ELSE IF ~t2.ok THEN Panic(LiquidityPool, TotalShares, Shares, t1.tok)
        ELSE IF overflow_checks /\ other_currency_pool < other_currency_amount
        THEN Panic(LiquidityPool, TotalShares, Shares, t2.tok)
        ELSE Commit(
            [LiquidityPool EXCEPT ![other_currency_id] =
                << wrapping_sub(@[1], other_currency_amount), @[2] + base_currency_amount >>],
            TotalShares, Shares, t2.tok,
            << "Swap", who, base_currency_id, base_currency_amount,
               other_currency_id, other_currency_amount >>)

\* use other currency to swap another other currency
swap_other_to_other(who, supply_other_currency_id, supply_other_currency_amount, target_other_currency_id, min_target_other_currency_amount) ==
    LET supply_other_currency_pool == LiquidityPool[supply_other_currency_id][1]
        supply_base_currency_pool == LiquidityPool[supply_other_currency_id][2]
        intermediate_base_currency_amount ==
            calculate_swap_target_amount(supply_other_currency_pool, supply_base_currency_pool,
                                         supply_other_currency_amount)
        target_other_currency_pool == LiquidityPool[target_other_currency_id][1]
        target_base_currency_pool == LiquidityPool[target_other_currency_id][2]
        target_other_currency_amount ==
            IF intermediate_base_currency_amount = BalanceFailed THEN BalanceFailed
            ELSE calculate_swap_target_amount(target_base_currency_pool,
                                              target_other_currency_pool,
                                              intermediate_base_currency_amount)
        t1 == transfer(Tokens, supply_other_currency_id, who, account_id,
                       supply_other_currency_amount)
        t2 == transfer(t1.tok, target_other_currency_id, account_id, who,
                       target_other_currency_amount)
        pool2 == mutate_pools_other_to_other(
                    supply_other_currency_id, supply_other_currency_amount,
                    target_other_currency_id, target_other_currency_amount,
                    intermediate_base_currency_amount)
    IN  IF ~(/\ supply_other_currency_amount > 0
             /\ ensure_can_withdraw(Tokens, supply_other_currency_id, who,
                                    supply_other_currency_amount))
        THEN Fail("TokenNotEnough")
        ELSE IF intermediate_base_currency_amount = BalanceFailed
                \/ target_other_currency_amount = BalanceFailed
        THEN FromRationalFailed
        ELSE IF ~acceptable_price(target_other_currency_amount,
                                   min_target_other_currency_amount)
        THEN Fail("InacceptablePrice")
        ELSE IF ~t1.ok THEN Panic(LiquidityPool, TotalShares, Shares, Tokens)
        ELSE IF ~t2.ok THEN Panic(LiquidityPool, TotalShares, Shares, t1.tok)
        ELSE IF overflow_checks
                /\ supply_base_currency_pool < intermediate_base_currency_amount
        THEN Panic(LiquidityPool, TotalShares, Shares, t2.tok)
        ELSE IF overflow_checks /\ target_other_currency_pool < target_other_currency_amount
        THEN Panic([LiquidityPool EXCEPT ![supply_other_currency_id] =
                        << @[1] + supply_other_currency_amount,
                           wrapping_sub(@[2], intermediate_base_currency_amount) >>],
                   TotalShares, Shares, t2.tok)
        ELSE Commit(pool2, TotalShares, Shares, t2.tok,
            << "Swap", who, supply_other_currency_id, supply_other_currency_amount,
               target_other_currency_id, target_other_currency_amount >>)

swap_currency_misrouted(who, supply, target) ==
    LET base_currency_id == GetBaseCurrencyId
    IN  IF ~(target[1] # supply[1]) THEN Fail("CanNotSwapItself")
        ELSE IF target[1] = base_currency_id
        THEN swap_base_to_other(who, target[1], supply[2], target[2])
        ELSE IF supply[1] = base_currency_id
        THEN swap_base_to_other(who, target[1], supply[2], target[2])
        ELSE swap_other_to_other(who, supply[1], supply[2], target[1], target[2])

\* the dispatch shared by swap_currency (lines 72-84) and exchange_currency
swap_currency(who, supply, target) ==
    LET base_currency_id == GetBaseCurrencyId
    IN  IF ~(target[1] # supply[1]) THEN Fail("CanNotSwapItself")
        ELSE IF target[1] = base_currency_id
        THEN swap_other_to_base(who, supply[1], supply[2], target[2])
        ELSE IF supply[1] = base_currency_id
        THEN swap_base_to_other(who, target[1], supply[2], target[2])
        ELSE swap_other_to_other(who, supply[1], supply[2], target[1], target[2])

exchange_currency_unchecked(who, supply, target) ==
    LET base_currency_id == GetBaseCurrencyId
    IN  IF target[1] = base_currency_id
        THEN swap_other_to_base(who, supply[1], supply[2], target[2])
        ELSE IF supply[1] = base_currency_id
        THEN swap_base_to_other(who, target[1], supply[2], target[2])
        ELSE swap_other_to_other(who, supply[1], supply[2], target[1], target[2])

exchange_currency(who, supply, target) ==
    LET base_currency_id == GetBaseCurrencyId
    IN  IF ~(target[1] # supply[1]) THEN Fail("CanNotSwapItself")
        ELSE IF target[1] = base_currency_id
        THEN swap_other_to_base(who, supply[1], supply[2], target[2])
        ELSE IF supply[1] = base_currency_id
        THEN swap_base_to_other(who, target[1], supply[2], target[2])
        ELSE swap_other_to_other(who, supply[1], supply[2], target[1], target[2])

get_supply_amount(supply_currency_id, target_currency_id, target_currency_amount) ==
    LET base_currency_id == GetBaseCurrencyId
    IN  IF supply_currency_id = target_currency_id THEN 0
        ELSE IF target_currency_id = base_currency_id
        THEN calculate_swap_supply_amount(LiquidityPool[supply_currency_id][1],
                                          LiquidityPool[supply_currency_id][2],
                                          target_currency_amount)
        ELSE IF supply_currency_id = base_currency_id
        THEN calculate_swap_supply_amount(LiquidityPool[target_currency_id][2],
                                          LiquidityPool[target_currency_id][1],
                                          target_currency_amount)
        ELSE LET intermediate_base_currency_amount ==
                     calculate_swap_supply_amount(LiquidityPool[target_currency_id][2],
                                                  LiquidityPool[target_currency_id][1],
                                                  target_currency_amount)
             IN  IF intermediate_base_currency_amount = BalanceFailed THEN BalanceFailed
                 ELSE calculate_swap_supply_amount(LiquidityPool[supply_currency_id][1],
                                                   LiquidityPool[supply_currency_id][2],
                                                   intermediate_base_currency_amount)

(* ------------------------------ behaviour ------------------------------ *)
\* the record kept of the last call: its operation, its result (Ok or the
\* error) and, for get_supply_amount, the value returned
Called(op, result, ret) == [op |-> op, result |-> result, ret |-> ret]

\* ExtBuilder::default().build(): empty DEX storage, ALICE and BOB endowed
\* the build is either one, and stays what it is
Init ==
    /\ LiquidityPool = [c \in CurrencyIds |-> <<0, 0>>]
    /\ TotalShares = [c \in CurrencyIds |-> 0]
    /\ Shares = [c \in CurrencyIds |-> [a \in Signers |-> 0]]
    /\ Tokens = [c \in CurrencyIds |->
                    [a \in AccountIds |-> IF a \in Signers THEN InitialBalance ELSE 0]]
    /\ event = NoEvent
    /\ call = Called("none", "Ok", 0)
    /\ ops = 0
    /\ overflow_checks \in BOOLEAN

\* the writes of a call reach the state
Apply(r) ==
    /\ ops < MaxOps
    /\ ops' = ops + 1
    /\ LiquidityPool' = r.LiquidityPool
    /\ TotalShares' = r.TotalShares
    /\ Shares' = r.Shares
    /\ Tokens' = r.Tokens
    /\ event' = r.event
    /\ UNCHANGED overflow_checks

AddLiquidity ==
    \E who \in Signers, cy \in CurrencyIds, max_other \in Amounts, max_base \in Amounts :
        LET r == add_liquidity(who, cy, max_other, max_base)
        IN  /\ Apply(r)
            /\ call' = Called("add_liquidity", r.result, 0)

WithdrawLiquidity ==
    \E who \in Signers, cy \in CurrencyIds, share_amount \in ShareAmounts :
        LET r == withdraw_liquidity(who, cy, share_amount)
        IN  /\ Apply(r)
            /\ call' = Called("withdraw_liquidity", r.result, 0)

SwapCurrency ==
    \E who \in Signers, cs \in CurrencyIds, ct \in CurrencyIds,
       amount \in Amounts, min_target \in Amounts :
        LET r == swap_currency(who, <<cs, amount>>, <<ct, min_target>>)
        IN  /\ Apply(r)
            /\ call' = Called("swap_currency", r.result, 0)

ExchangeCurrency ==
    \E who \in Signers, cs \in CurrencyIds, ct \in CurrencyIds,
       amount \in Amounts, min_target \in Amounts :
        LET r == exchange_currency(who, <<cs, amount>>, <<ct, min_target>>)
        IN  /\ Apply(r)
            /\ call' = Called("exchange_currency", r.result, 0)

GetSupplyAmount ==
    \E cs \in CurrencyIds, ct \in CurrencyIds, target_amount \in Amounts :
        /\ ops < MaxOps
        /\ ops' = ops + 1
        /\ UNCHANGED <<LiquidityPool, TotalShares, Shares, Tokens, overflow_checks>>
        /\ event' = NoEvent
        /\ LET ret == get_supply_amount(cs, ct, target_amount)
           IN  call' = Called("get_supply_amount",
                              IF ret = BalanceFailed THEN "FromRationalFailed" ELSE "Ok",
                              ret)

Next ==
    \/ AddLiquidity
    \/ WithdrawLiquidity
    \/ SwapCurrency
    \/ ExchangeCurrency
    \/ GetSupplyAmount

Spec == Init /\ [][Next]_vars

(* --------------------------- scenario runs ----------------------------- *)
\* ExtBuilder::default().build() with the scenario balance
ScenarioInit ==
    /\ LiquidityPool = [c \in CurrencyIds |-> <<0, 0>>]
    /\ TotalShares = [c \in CurrencyIds |-> 0]
    /\ Shares = [c \in CurrencyIds |-> [a \in Signers |-> 0]]
    /\ Tokens = [c \in CurrencyIds |->
                    [a \in AccountIds |-> IF a \in Signers THEN ScenarioBalance ELSE 0]]
    /\ event = NoEvent
    /\ call = Called("none", "Ok", 0)
    /\ ops = 0
    /\ overflow_checks \in BOOLEAN

ScenarioApply(r) ==
    /\ ops < MaxScenarioOps
    /\ ops' = ops + 1
    /\ LiquidityPool' = r.LiquidityPool
    /\ TotalShares' = r.TotalShares
    /\ Shares' = r.Shares
    /\ Tokens' = r.Tokens
    /\ event' = r.event
    /\ UNCHANGED overflow_checks

ScenarioAddLiquidity ==
    \E who \in Signers, cy \in ScenarioCurrencyIds,
       max_other \in ScenarioAmounts, max_base \in ScenarioAmounts :
        LET r == add_liquidity(who, cy, max_other, max_base)
        IN  /\ ScenarioApply(r)
            /\ call' = Called("add_liquidity", r.result, 0)

ScenarioWithdrawLiquidity ==
    \E who \in Signers, cy \in ScenarioCurrencyIds, share_amount \in ScenarioShareAmounts :
        LET r == withdraw_liquidity(who, cy, share_amount)
        IN  /\ ScenarioApply(r)
            /\ call' = Called("withdraw_liquidity", r.result, 0)

ScenarioSwapCurrency ==
    \E who \in Signers, cs \in ScenarioCurrencyIds, ct \in ScenarioCurrencyIds, amount \in ScenarioAmounts :
        LET r == swap_currency(who, <<cs, amount>>, <<ct, 0>>)
        IN  /\ ScenarioApply(r)
            /\ call' = Called("swap_currency", r.result, 0)

ScenarioNext ==
    \/ ScenarioAddLiquidity
    \/ ScenarioWithdrawLiquidity
    \/ ScenarioSwapCurrency

ScenarioSpec == ScenarioInit /\ [][ScenarioNext]_vars

(* -------------------------- large-balance runs ------------------------ *)
\* ExtBuilder::default().build() with the large balance
LargeInit ==
    /\ LiquidityPool = [c \in CurrencyIds |-> <<0, 0>>]
    /\ TotalShares = [c \in CurrencyIds |-> 0]
    /\ Shares = [c \in CurrencyIds |-> [a \in Signers |-> 0]]
    /\ Tokens = [c \in CurrencyIds |->
                    [a \in AccountIds |-> IF a \in Signers THEN LargeBalance ELSE 0]]
    /\ event = NoEvent
    /\ call = Called("none", "Ok", 0)
    /\ ops = 0
    /\ overflow_checks \in BOOLEAN

LargeApply(r) ==
    /\ ops < MaxLargeOps
    /\ ops' = ops + 1
    /\ LiquidityPool' = r.LiquidityPool
    /\ TotalShares' = r.TotalShares
    /\ Shares' = r.Shares
    /\ Tokens' = r.Tokens
    /\ event' = r.event
    /\ UNCHANGED overflow_checks

LargeAddLiquidity ==
    \E who \in Signers, cy \in ScenarioCurrencyIds,
       max_other \in LargeAmounts, max_base \in LargeAmounts :
        LET r == add_liquidity(who, cy, max_other, max_base)
        IN  /\ LargeApply(r)
            /\ call' = Called("add_liquidity", r.result, 0)

LargeWithdrawLiquidity ==
    \E who \in Signers, cy \in ScenarioCurrencyIds, share_amount \in LargeAmounts :
        LET r == withdraw_liquidity(who, cy, share_amount)
        IN  /\ LargeApply(r)
            /\ call' = Called("withdraw_liquidity", r.result, 0)

LargeSwapCurrency ==
    \E who \in Signers, cs \in ScenarioCurrencyIds, ct \in ScenarioCurrencyIds, amount \in LargeAmounts :
        LET r == swap_currency(who, <<cs, amount>>, <<ct, 0>>)
        IN  /\ LargeApply(r)
            /\ call' = Called("swap_currency", r.result, 0)

LargeNext ==
    \/ LargeAddLiquidity
    \/ LargeWithdrawLiquidity
    \/ LargeSwapCurrency

LargeSpec == LargeInit /\ [][LargeNext]_vars

(* ------------------------------- properties ---------------------------- *)
OtherCurrencyIds == CurrencyIds \ {GetBaseCurrencyId}
SwapOps == {"swap_currency", "exchange_currency"}

RECURSIVE Sum(_, _)
\* the sum of f[x] over the finite set S
Sum(f, S) ==
    IF S = {} THEN 0
    ELSE LET x == CHOOSE y \in S : TRUE IN f[x] + Sum(f, S \ {x})

Product(pool) == pool[1] * pool[2]

\* the step just taken was a call of op that returned Ok
Did(op) == call.op = op /\ call.result = "Ok"
DidSwap == call.op \in SwapOps /\ call.result = "Ok"

\* C1: for every non-base currency, TotalShares equals the sum of the
\* accounts' Shares, after every call, successful or failing.
C1_ShareConservation ==
    \A c \in OtherCurrencyIds : TotalShares[c] = Sum(Shares[c], Signers)

\* a withdrawal has just left both accounts with shares of the same pool
C1_Witness ==
    /\ Did("withdraw_liquidity")
    /\ \E c \in OtherCurrencyIds : \A a \in Signers : Shares[c][a] > 0

\* C2: the pool account's balance of every non-base currency is that pool's
\* other reserve, and its base balance is the sum of all base reserves.
C2_ReserveCustody ==
    /\ \A c \in OtherCurrencyIds : Tokens[c][account_id] = LiquidityPool[c][1]
    /\ Tokens[GetBaseCurrencyId][account_id]
           = Sum([c \in CurrencyIds |-> LiquidityPool[c][2]], CurrencyIds)

\* a two-hop swap has just moved base between two pools and paid the caller
C2_Witness ==
    /\ DidSwap
    /\ event[1] = "Swap"
    /\ event[3] # GetBaseCurrencyId
    /\ event[5] # GetBaseCurrencyId
    /\ event[6] > 0

\* C3: a call that returns an error leaves LiquidityPool, TotalShares, Shares
\* and every ledger balance as they were and deposits no event.
C3_NoMutationOnFailure ==
    [][call'.result # "Ok" =>
          /\ UNCHANGED <<LiquidityPool, TotalShares, Shares, Tokens>>
          /\ event' = NoEvent]_vars

\* a swap has just failed on its price against a funded pool
C3_Witness ==
    /\ call.op \in SwapOps
    /\ call.result = "InacceptablePrice"
    /\ \E c \in OtherCurrencyIds : TotalShares[c] > 0

\* C4: a pool with outstanding shares has both reserves positive.
C4_SharesImplyReserves ==
    \A c \in OtherCurrencyIds :
        TotalShares[c] > 0 => LiquidityPool[c][1] > 0 /\ LiquidityPool[c][2] > 0

\* a swap has just paid out of a pool that has outstanding shares
C4_Witness ==
    /\ DidSwap
    /\ event[1] = "Swap"
    /\ event[6] > 0
    /\ \E c \in {event[3], event[5]} \ {GetBaseCurrencyId} : TotalShares[c] > 0

\* C5: TotalShares and the two reserves of a pool are all zero or all
\* positive; a pool without shares holds no reserve.
C5_AllZeroOrAllPositive ==
    \A c \in OtherCurrencyIds :
        \/ TotalShares[c] = 0 /\ LiquidityPool[c] = <<0, 0>>
        \/ TotalShares[c] > 0 /\ LiquidityPool[c][1] > 0 /\ LiquidityPool[c][2] > 0

\* the pools a recorded Swap event names
Touched(ev) == {ev[3], ev[5]} \ {GetBaseCurrencyId}

\* C6: a successful swap does not decrease other_reserve * base_reserve of a
\* pool it touches.  (The claim adds that the product grows strictly under a
\* positive fee; that asks more, so it falls with this half.)
C6_ProductNonDecreasing ==
    [][(call'.op \in SwapOps /\ call'.result = "Ok") =>
          \A c \in Touched(event') :
              Product(LiquidityPool'[c]) >= Product(LiquidityPool[c])]_vars

\* C7: a successful add_liquidity followed at once by the same account's
\* withdraw_liquidity of the minted shares pays out no more than was taken.
C7_NoFreeLiquidity ==
    [][(/\ Did("add_liquidity")
        /\ call'.op = "withdraw_liquidity" /\ call'.result = "Ok"
        /\ event'[2] = event[2] /\ event'[3] = event[3] /\ event'[6] = event[6]) =>
          LET who == event[2]
              c == event[3]
          IN  /\ Tokens'[c][who] - Tokens[c][who] <= event[4]
              /\ Tokens'[GetBaseCurrencyId][who] - Tokens[GetBaseCurrencyId][who]
                     <= event[5]]_vars

\* C8: whenever get_supply_amount(a, b, x) is a non-zero amount the caller can
\* withdraw, swapping that amount of a for b with min_target 0 in the same
\* state delivers at least x - 1 of b to the caller.
C8_QuoteSwapRoundTrip ==
    \A who \in Signers, a \in CurrencyIds, b \in CurrencyIds, x \in Amounts \ {0} :
        LET s == get_supply_amount(a, b, x)
            r == swap_currency(who, <<a, s>>, <<b, 0>>)
        IN  (a # b /\ s # BalanceFailed /\ s # 0 /\ ensure_can_withdraw(Tokens, a, who, s)) =>
                /\ r.result = "Ok"
                /\ r.Tokens[b][who] - Tokens[b][who] >= x - 1

\* C9: no swap is accepted for a priced output of 0.
C9_ZeroOutputRejected == DidSwap => event[6] > 0

\* the amount the code prices for a swap of amount from cs to ct, or
\* BalanceFailed when the pricing fails and there is no priced output
PricedOutput(cs, ct, amount) ==
    IF ct = GetBaseCurrencyId
    THEN calculate_swap_target_amount(LiquidityPool[cs][1], LiquidityPool[cs][2], amount)
    ELSE IF cs = GetBaseCurrencyId
    THEN calculate_swap_target_amount(LiquidityPool[ct][2], LiquidityPool[ct][1], amount)
    ELSE LET mid == calculate_swap_target_amount(LiquidityPool[cs][1],
                                                 LiquidityPool[cs][2], amount)
         IN  IF mid = BalanceFailed THEN BalanceFailed
             ELSE calculate_swap_target_amount(LiquidityPool[ct][2], LiquidityPool[ct][1], mid)

\* what C10 asks of the outcome r of a swap that reached pricing
SlippageRule(r, who, cs, amount, ct, min_target) ==
    LET priced == PricedOutput(cs, ct, amount)
        enough == priced # BalanceFailed /\ priced >= min_target
    IN  /\ r.result = "Ok" <=> enough
        /\ ~enough => r.result = "InacceptablePrice"
        /\ r.result = "Ok" =>
              /\ r.Tokens[cs][who] = Tokens[cs][who] - amount
              /\ r.Tokens[ct][who] = Tokens[ct][who] + priced
              /\ r.event = <<"Swap", who, cs, amount, ct, priced>>

\* C10: on every route, a swap that is priced (distinct currencies, a positive
\* amount the caller can withdraw) succeeds exactly when the priced output is
\* at least min_target and fails with InacceptablePrice otherwise; on success
\* the caller pays the supplied amount, receives the priced output, and the
\* Swap event reports both.
C10_SlippageBound ==
    \A who \in Signers, cs \in CurrencyIds, ct \in CurrencyIds,
       amount \in Amounts, min_target \in Amounts :
        (cs # ct /\ amount > 0 /\ ensure_can_withdraw(Tokens, cs, who, amount)) =>
            /\ SlippageRule(swap_currency(who, <<cs, amount>>, <<ct, min_target>>),
                            who, cs, amount, ct, min_target)
            /\ SlippageRule(exchange_currency(who, <<cs, amount>>, <<ct, min_target>>),
                            who, cs, amount, ct, min_target)

\* C11: the base currency is never pooled: add_liquidity and
\* withdraw_liquidity naming it fail with BaseCurrencyIdNotAllowed, and in
\* every reachable state its pool is (0, 0) and its TotalShares is 0.
C11_BaseCurrencyExcluded ==
    /\ LiquidityPool[GetBaseCurrencyId] = <<0, 0>>
    /\ TotalShares[GetBaseCurrencyId] = 0
    /\ \A who \in Signers, max_other \in Amounts, max_base \in Amounts :
          add_liquidity(who, GetBaseCurrencyId, max_other, max_base).result
              = "BaseCurrencyIdNotAllowed"
    /\ \A who \in Signers, share_amount \in ShareAmounts :
          withdraw_liquidity(who, GetBaseCurrencyId, share_amount).result
              = "BaseCurrencyIdNotAllowed"

\* a swap out of the base currency has just succeeded, and the caller could
\* afford the add_liquidity on the base currency that is refused
C11_Witness ==
    /\ DidSwap
    /\ event[3] = GetBaseCurrencyId
    /\ Tokens[GetBaseCurrencyId][account_id] > 0
    /\ \E who \in Signers :
          /\ ensure_can_withdraw(Tokens, GetBaseCurrencyId, who, 1)
          /\ add_liquidity(who, GetBaseCurrencyId, 1, 1).result = "BaseCurrencyIdNotAllowed"

\* C12: on a pool without shares, add_liquidity of positive amounts the caller
\* can withdraw takes exactly max_other and max_base, mints
\* max(max_other, max_base) shares to the caller, and leaves
\* Pool[c] = (max_other, max_base), TotalShares[c] = Shares[c, who] = the mint.
C12_FirstLiquidity ==
    \A who \in Signers, c \in OtherCurrencyIds,
       max_other \in Amounts \ {0}, max_base \in Amounts \ {0} :
        LET r == add_liquidity(who, c, max_other, max_base)
            initial_share == Max(max_other, max_base)
        IN  (/\ TotalShares[c] = 0
             /\ ensure_can_withdraw(Tokens, c, who, max_other)
             /\ ensure_can_withdraw(Tokens, GetBaseCurrencyId, who, max_base)) =>
                /\ r.result = "Ok"
                /\ r.Tokens[c][who] = Tokens[c][who] - max_other
                /\ r.Tokens[GetBaseCurrencyId][who] = Tokens[GetBaseCurrencyId][who] - max_base
                /\ r.event = <<"AddLiquidity", who, c, max_other, max_base, initial_share>>
                /\ r.LiquidityPool[c] = <<max_other, max_base>>
                /\ r.TotalShares[c] = initial_share
                /\ r.Shares[c][who] = initial_share

\* C13: on a pool with shares, add_liquidity with maxima in exactly the
\* pool's ratio (max_base * P_o = max_other * P_b) that the caller can
\* withdraw succeeds and takes both maxima in full.
C13_ProportionalAdd ==
    \A who \in Signers, c \in OtherCurrencyIds,
       max_other \in Amounts \ {0}, max_base \in Amounts \ {0} :
        LET r == add_liquidity(who, c, max_other, max_base)
        IN  (/\ TotalShares[c] > 0
             /\ max_base * LiquidityPool[c][1] = max_other * LiquidityPool[c][2]
             /\ ensure_can_withdraw(Tokens, c, who, max_other)
             /\ ensure_can_withdraw(Tokens, GetBaseCurrencyId, who, max_base)) =>
                /\ r.result = "Ok"
                /\ r.event[4] = max_other
                /\ r.event[5] = max_base

\* the state of scenario 2: two providers, Pool[BTC] = (150, 150)
TwoProviders ==
    /\ LiquidityPool[BTC] = <<150, 150>>
    /\ TotalShares[BTC] = 150
    /\ Shares[BTC][ALICE] = 100
    /\ Shares[BTC][BOB] = 50

\* the state three calls from genesis in which ALICE has just withdrawn her
\* 100 shares and BOB still holds the 50 he got for 50 BTC and 50 AUSD: the
\* calls were the two adds of scenario 2 and ALICE's withdrawal
AliceWithdrew ==
    /\ ops = 3
    /\ Did("withdraw_liquidity")
    /\ event[2] = ALICE /\ event[3] = BTC /\ event[6] = 100
    /\ TotalShares[BTC] = 50
    /\ Shares[BTC][BOB] = 50
    /\ Tokens[BTC][BOB] = ScenarioBalance - 50
    /\ Tokens[AUSD][BOB] = ScenarioBalance - 50

\* what a withdrawal r pays who: <<other currency, base currency>>
Paid(r, who, c) ==
    << r.Tokens[c][who] - Tokens[c][who],
       r.Tokens[GetBaseCurrencyId][who] - Tokens[GetBaseCurrencyId][who] >>

\* C14: from Pool[BTC] = (150, 150) with shares ALICE 100, BOB 50,
\* withdraw_liquidity(ALICE, BTC, 100) pays ALICE exactly 100 BTC and 100 AUSD,
\* and the following withdraw_liquidity(BOB, BTC, 50) pays BOB exactly 50 BTC
\* and 50 AUSD.
C14_WithdrawAllScenario ==
    /\ TwoProviders =>
          LET r == withdraw_liquidity(ALICE, BTC, 100)
          IN  r.result = "Ok" /\ Paid(r, ALICE, BTC) = <<100, 100>>
    /\ AliceWithdrew =>
          LET r == withdraw_liquidity(BOB, BTC, 50)
          IN  r.result = "Ok" /\ Paid(r, BOB, BTC) = <<50, 50>>

\* C15: with fee 1/100 and Pool[BTC] = (1000, 1000), a swap of 100 BTC for
\* AUSD with min_target 0 leaves Pool[BTC] = (1100, 910).
C15_SimpleSwapScenario ==
    \A who \in Signers :
        (/\ LiquidityPool[BTC] = <<1000, 1000>>
         /\ ensure_can_withdraw(Tokens, BTC, who, 100)) =>
            LET r == swap_currency(who, <<BTC, 100>>, <<AUSD, 0>>)
            IN  r.result = "Ok" /\ r.LiquidityPool[BTC] = <<1100, 910>>

\* C16: withdraw_liquidity on a non-base currency fails with ShareNotEnough
\* exactly when share_amount is 0 or exceeds the caller's shares; otherwise
\* it succeeds, takes exactly share_amount from Shares[cy, who] and from
\* TotalShares[cy], and leaves both reserves non-negative.
C16_WithdrawGuard ==
    \A who \in Signers, cy \in OtherCurrencyIds, share_amount \in ShareAmounts :
        LET r == withdraw_liquidity(who, cy, share_amount)
        IN  /\ r.result = "ShareNotEnough"
                  <=> (share_amount = 0 \/ share_amount > Shares[cy][who])
            /\ (share_amount > 0 /\ share_amount <= Shares[cy][who]) =>
                  /\ r.result = "Ok"
                  /\ r.Shares[cy][who] = Shares[cy][who] - share_amount
                  /\ r.TotalShares[cy] = TotalShares[cy] - share_amount
                  /\ r.LiquidityPool[cy][1] >= 0
                  /\ r.LiquidityPool[cy][2] >= 0

\* a withdrawal has just succeeded on a pool that a swap had moved before,
\* leaving a holder who can withdraw again and an account that cannot
C16_Witness ==
    /\ Did("withdraw_liquidity")
    /\ \E cy \in OtherCurrencyIds, a \in Signers, b \in Signers :
          /\ Shares[cy][a] > 0
          /\ Shares[cy][b] = 0
          /\ LiquidityPool[cy][1] # LiquidityPool[cy][2]

\* C17: a swap whose supply and target currency are the same fails with
\* CanNotSwapItself through swap_currency and through exchange_currency, for
\* every currency (the base currency included), amount, min_target and
\* caller balance: the check comes before the balance and price checks.
C17_CanNotSwapItself ==
    \A who \in Signers, c \in CurrencyIds, amount \in Amounts, min_target \in Amounts :
        /\ swap_currency(who, <<c, amount>>, <<c, min_target>>).result = "CanNotSwapItself"
        /\ exchange_currency(who, <<c, amount>>, <<c, min_target>>).result = "CanNotSwapItself"

\* a swap of a currency for itself has just been refused, in a state where
\* some caller holds none of some currency, so that the same call with
\* distinct currencies stops at the balance check
C17_Witness ==
    /\ call.op \in SwapOps
    /\ call.result = "CanNotSwapItself"
    /\ \E who \in Signers, c \in CurrencyIds, d \in CurrencyIds :
          /\ d # c
          /\ Tokens[c][who] = 0
          /\ swap_currency(who, <<c, 1>>, <<d, 0>>).result = "TokenNotEnough"
          /\ exchange_currency(who, <<c, 1>>, <<c, 0>>).result = "CanNotSwapItself"

\* a hop that cannot be priced backwards: its pool is empty, or its target
\* reserve is below target_amount / (1 - fee)
Unpriceable(pool, target_pool, target_amount) ==
    \/ pool = <<0, 0>>
    \/ target_pool < checked_mul_int(OneDivOneMinusFee, target_amount)

\* the cases in which C18 asks for a quote of 0
QuoteMustBeZero(cs, ct, x) ==
    IF cs = ct THEN TRUE
    ELSE IF ct = GetBaseCurrencyId
    THEN Unpriceable(LiquidityPool[cs], LiquidityPool[cs][2], x)
    ELSE IF cs = GetBaseCurrencyId
    THEN Unpriceable(LiquidityPool[ct], LiquidityPool[ct][1], x)
    ELSE LET mid == calculate_swap_supply_amount(LiquidityPool[ct][2],
                                                 LiquidityPool[ct][1], x)
         IN  \/ Unpriceable(LiquidityPool[ct], LiquidityPool[ct][1], x)
             \/ /\ mid # BalanceFailed
                /\ Unpriceable(LiquidityPool[cs], LiquidityPool[cs][2], mid)

\* C18: get_supply_amount changes no state, and returns 0 when supply and
\* target currency are equal, when the pool of a hop is empty, and when the
\* target reserve of a hop cannot cover target_amount / (1 - fee); a two-hop
\* quote is 0 whenever either hop is unpriceable.
C18_QuoteZeroCases ==
    /\ [](\A cs \in CurrencyIds, ct \in CurrencyIds, x \in Amounts :
            QuoteMustBeZero(cs, ct, x) => get_supply_amount(cs, ct, x) = 0)
    /\ [][call'.op = "get_supply_amount" =>
             /\ UNCHANGED <<LiquidityPool, TotalShares, Shares, Tokens>>
             /\ event' = NoEvent]_vars

\* the width of the narrowest unsigned integer type that holds the whole
\* issuance of one currency in the scenario runs
Width ==
    CHOOSE w \in 1 .. 30 :
        /\ 2^w - 1 >= 2 * ScenarioBalance
        /\ \A v \in 1 .. w - 1 : 2^v - 1 < 2 * ScenarioBalance
TypeMax == 2^Width - 1
InRange(v) == v \in 0 .. TypeMax

\* C19: with balances and shares held in Width-bit unsigned integers, every
\* reserve and share value an operation commits is in 0 .. 2^Width - 1: the
\* sums TotalShares[c] + share_increment, Shares[c, who] + share_increment and
\* reserve + increment of add_liquidity never exceed the type maximum.
C19_NoOverflow ==
    \A c \in CurrencyIds :
        /\ InRange(TotalShares[c])
        /\ InRange(LiquidityPool[c][1])
        /\ InRange(LiquidityPool[c][2])
        /\ \A a \in Signers : InRange(Shares[c][a])

\* C20: in every reachable state and for every input, an operation that has
\* passed its validation checks completes: each ledger transfer it makes
\* finds the payer holding at least the amount, so no
\* expect("never failed because after checks") of add_liquidity,
\* withdraw_liquidity or the three swap routes fires.
C20_TransfersSucceed ==
    /\ \A who \in Signers, c \in CurrencyIds, max_other \in Amounts, max_base \in Amounts :
          add_liquidity(who, c, max_other, max_base).result # "Panic"
    /\ \A who \in Signers, c \in CurrencyIds, share_amount \in ShareAmounts :
          withdraw_liquidity(who, c, share_amount).result # "Panic"
    /\ \A who \in Signers, cs \in CurrencyIds, ct \in CurrencyIds,
          amount \in Amounts, min_target \in Amounts :
          /\ swap_currency(who, <<cs, amount>>, <<ct, min_target>>).result # "Panic"
          /\ exchange_currency(who, <<cs, amount>>, <<ct, min_target>>).result # "Panic"

\* a withdrawal has just paid out everything the pool account held of the
\* pooled currency, and some caller's add_liquidity stops at the balance check
C20_Witness ==
    /\ Did("withdraw_liquidity")
    /\ event[4] > 0
    /\ Tokens[event[3]][account_id] = 0
    /\ \E who \in Signers, c \in OtherCurrencyIds, max_other \in Amounts :
          add_liquidity(who, c, max_other, 1).result = "TokenNotEnough"

\* the sum of the base reserves of all pools
BaseReserves(pool) == Sum([c \in CurrencyIds |-> pool[c][2]], CurrencyIds)

\* what C21 asks of the outcome r of a successful swap of amount from cs to
\* ct, both non-base
TwoHopRule(r, who, cs, amount, ct) ==
    LET base_mid == calculate_swap_target_amount(LiquidityPool[cs][1], LiquidityPool[cs][2],
                                                 amount)
        other_out == calculate_swap_target_amount(LiquidityPool[ct][2], LiquidityPool[ct][1],
                                                  base_mid)
    IN  r.result = "Ok" =>
          /\ r.LiquidityPool[cs] = << LiquidityPool[cs][1] + amount,
                                      LiquidityPool[cs][2] - base_mid >>
          /\ r.LiquidityPool[ct] = << LiquidityPool[ct][1] - other_out,
                                      LiquidityPool[ct][2] + base_mid >>
          /\ r.Tokens[ct][who] = Tokens[ct][who] + other_out
          /\ BaseReserves(r.LiquidityPool) = BaseReserves(LiquidityPool)
          /\ r.Tokens[GetBaseCurrencyId][account_id] = Tokens[GetBaseCurrencyId][account_id]
          /\ r.Tokens[GetBaseCurrencyId][who] = Tokens[GetBaseCurrencyId][who]

\* C21: a successful swap between two distinct non-base currencies prices
\* base_mid on the pre-operation Pool[cs] and other_out on the pre-operation
\* Pool[ct] with base_mid as input, sets Pool[cs] = (P_o + amount,
\* P_b - base_mid) and Pool[ct] = (P_o - other_out, P_b + base_mid), and
\* leaves the sum of base reserves, the pool account's base balance and the
\* caller's base balance unchanged.
C21_TwoHopRouting ==
    \A who \in Signers, cs \in OtherCurrencyIds, ct \in OtherCurrencyIds,
       amount \in Amounts, min_target \in Amounts :
        cs # ct =>
            /\ TwoHopRule(swap_currency(who, <<cs, amount>>, <<ct, min_target>>),
                          who, cs, amount, ct)
            /\ TwoHopRule(exchange_currency(who, <<cs, amount>>, <<ct, min_target>>),
                          who, cs, amount, ct)

\* a two-hop swap between two funded pools has just paid a positive amount
\* and moved base from the supply pool to the target pool
C21_Witness ==
    /\ DidSwap
    /\ event[3] # GetBaseCurrencyId /\ event[5] # GetBaseCurrencyId
    /\ event[6] > 0
    /\ TotalShares[event[3]] > 0 /\ TotalShares[event[5]] > 0
    /\ LiquidityPool[event[3]][2] < LiquidityPool[event[5]][2]

\* share amounts tried against every reachable state by C23
ProRataShareAmounts == ScenarioShareAmounts \cup {1, 7, 333, 1000}

\* C23: every successful withdraw_liquidity of s shares from a pool (P_o, P_b)
\* with total T pays other_out and base_out with other_out * T <= s * P_o
\* and base_out * T <= s * P_b, hence other_out <= P_o and base_out <= P_b,
\* and the reserve behind each remaining share does not decrease:
\* P_o' * T >= P_o * T' and P_b' * T >= P_b * T'.
C23_ProRataWithdrawal ==
    \A who \in Signers, c \in OtherCurrencyIds, s \in ProRataShareAmounts :
        LET r == withdraw_liquidity(who, c, s)
            T == TotalShares[c]
            P == LiquidityPool[c]
            out == Paid(r, who, c)
        IN  r.result = "Ok" =>
              /\ out[1] * T <= s * P[1] /\ out[2] * T <= s * P[2]
              /\ out[1] <= P[1] /\ out[2] <= P[2]
              /\ r.LiquidityPool[c] = << P[1] - out[1], P[2] - out[2] >>
              /\ r.LiquidityPool[c][1] * T >= P[1] * r.TotalShares[c]
              /\ r.LiquidityPool[c][2] * T >= P[2] * r.TotalShares[c]

\* a withdrawal has just paid a positive base amount that the two floors
\* rounded below the exact share s * P_b / T, and shares remain outstanding
C23_Witness ==
    /\ Did("withdraw_liquidity")
    /\ event[4] > 0
    /\ TotalShares[event[3]] > 0
    /\ event[4] * (TotalShares[event[3]] + event[6])
          < event[6] * (LiquidityPool[event[3]][2] + event[4])

\* C24: in every reachable state, a withdraw_liquidity of share_amount =
\* TotalShares[c] by the holder of every outstanding share succeeds, pays
\* other_out = P_o and base_out = P_b, and leaves Pool[c] = (0, 0) and
\* TotalShares[c] = 0.
C24_EmptyingAPool ==
    \A who \in Signers, c \in OtherCurrencyIds :
        (TotalShares[c] > 0 /\ Shares[c][who] = TotalShares[c]) =>
            LET r == withdraw_liquidity(who, c, TotalShares[c])
            IN  /\ r.result = "Ok"
                /\ Paid(r, who, c) = LiquidityPool[c]
                /\ r.LiquidityPool[c] = <<0, 0>>
                /\ r.TotalShares[c] = 0
                /\ r.Shares[c][who] = 0

\* the holder of every share of a pool with both reserves positive has just
\* withdrawn them all
C24_Witness ==
    /\ Did("withdraw_liquidity")
    /\ event[4] > 0
    /\ TotalShares[event[3]] = 0
    /\ LiquidityPool[event[3]] = <<0, 0>>
    /\ Tokens[event[3]][event[2]] > 0

\* the outcome r of a swap from cs to ct leaves every share and every pool
\* but those of the non-base currencies named as they are
SwapFrame(r, cs, ct) ==
    /\ r.TotalShares = TotalShares
    /\ r.Shares = Shares
    /\ \A d \in CurrencyIds \ ({cs, ct} \ {GetBaseCurrencyId}) :
            r.LiquidityPool[d] = LiquidityPool[d]

\* the outcome r of a liquidity call of who on c leaves the other currencies
\* and the other accounts' shares of c as they are
LiquidityFrame(r, who, c) ==
    /\ \A d \in CurrencyIds \ {c} :
            /\ r.LiquidityPool[d] = LiquidityPool[d]
            /\ r.TotalShares[d] = TotalShares[d]
            /\ r.Shares[d] = Shares[d]
    /\ \A a \in Signers \ {who} : r.Shares[c][a] = Shares[c][a]

FrameOfCalls ==
    /\ \A who \in Signers, cs \in CurrencyIds, ct \in CurrencyIds,
          amount \in Amounts, min_target \in Amounts :
            /\ SwapFrame(swap_currency(who, <<cs, amount>>, <<ct, min_target>>), cs, ct)
            /\ SwapFrame(exchange_currency(who, <<cs, amount>>, <<ct, min_target>>), cs, ct)
    /\ \A who \in Signers, c \in CurrencyIds, max_other \in Amounts, max_base \in Amounts :
            LET r == add_liquidity(who, c, max_other, max_base)
            IN  /\ LiquidityFrame(r, who, c)
                /\ r.TotalShares[c] >= TotalShares[c]
                /\ r.Shares[c][who] >= Shares[c][who]
    /\ \A who \in Signers, c \in CurrencyIds, share_amount \in ShareAmounts :
            LET r == withdraw_liquidity(who, c, share_amount)
            IN  /\ LiquidityFrame(r, who, c)
                /\ r.TotalShares[c] <= TotalShares[c]
                /\ r.Shares[c][who] <= Shares[c][who]

\* a step that raises a share count is an add_liquidity, one that lowers a
\* share count a withdraw_liquidity
SharesMoveOnlyInLiquidityCalls ==
    /\ (\E c \in CurrencyIds, a \in Signers : Shares'[c][a] > Shares[c][a])
          => call'.op = "add_liquidity"
    /\ (\E c \in CurrencyIds, a \in Signers : Shares'[c][a] < Shares[c][a])
          => call'.op = "withdraw_liquidity"
    /\ (\E c \in CurrencyIds : TotalShares'[c] > TotalShares[c])
          => call'.op = "add_liquidity"
    /\ (\E c \in CurrencyIds : TotalShares'[c] < TotalShares[c])
          => call'.op = "withdraw_liquidity"

\* C25: a swap of any route leaves TotalShares and Shares unchanged for every
\* currency and account; a single-hop swap changes only the pool of its
\* non-base currency and a two-hop swap only the two named pools;
\* add_liquidity and withdraw_liquidity on c leave Pool, TotalShares and
\* Shares of every other currency and Shares[c] of the other accounts
\* unchanged; shares rise only in add_liquidity and fall only in
\* withdraw_liquidity.
C25_FrameOfEachOperation == []FrameOfCalls /\ [][SharesMoveOnlyInLiquidityCalls]_vars

\* liquidity has just been added to a pool in which another account holds
\* shares, while a second pool has shares of its own
C25_Witness ==
    /\ Did("add_liquidity")
    /\ \E a \in Signers \ {event[2]} : Shares[event[3]][a] > 0
    /\ \E d \in OtherCurrencyIds \ {event[3]} : TotalShares[d] > 0 /\ LiquidityPool[d][1] > 0

\* amounts offered to every reachable state by C26
DilutionAmounts == {7, 333, 1000}

\* C26: every successful add_liquidity on a pool with TotalShares[c] = T > 0
\* and reserves (P_o, P_b) keeps the reserve behind each share: (P_o +
\* other_inc) * T >= P_o * (T + share_inc) and (P_b + base_inc) * T >= P_b *
\* (T + share_inc), in the base-binding and in the other-binding branch.
C26_NoDilution ==
    \A who \in Signers, c \in OtherCurrencyIds,
       max_other \in DilutionAmounts, max_base \in DilutionAmounts :
        LET r == add_liquidity(who, c, max_other, max_base)
            T == TotalShares[c]
            P == LiquidityPool[c]
        IN  (r.result = "Ok" /\ T > 0) =>
              /\ r.LiquidityPool[c][1] * T >= P[1] * r.TotalShares[c]
              /\ r.LiquidityPool[c][2] * T >= P[2] * r.TotalShares[c]
              /\ r.event[4] * T >= P[1] * r.event[6]
              /\ r.event[5] * T >= P[2] * r.event[6]

\* liquidity has just been added to a pool that had shares, and the share
\* increment was rounded below both base_inc * T / P_b and other_inc * T / P_o
C26_Witness ==
    /\ Did("add_liquidity")
    /\ event[6] > 0
    /\ TotalShares[event[3]] > event[6]
    /\ event[5] * (TotalShares[event[3]] - event[6])
          > (LiquidityPool[event[3]][2] - event[5]) * event[6]
    /\ event[4] * (TotalShares[event[3]] - event[6])
          > (LiquidityPool[event[3]][1] - event[4]) * event[6]

\* what C22 asks of add_liquidity(who, c, max_other, max_base) in the current
\* state
AcceptedLiquidityRule(who, c, max_other, max_base) ==
    LET r == add_liquidity(who, c, max_other, max_base)
        inc == liquidity_increment(c, max_other, max_base)
    IN  /\ r.result = "Ok" =>
              /\ 0 < r.event[4] /\ r.event[4] <= max_other
              /\ 0 < r.event[5] /\ r.event[5] <= max_base
              /\ r.event[6] > 0
              /\ r.LiquidityPool[c] = << LiquidityPool[c][1] + r.event[4],
                                         LiquidityPool[c][2] + r.event[5] >>
              /\ r.Tokens[c][who] = Tokens[c][who] - r.event[4]
              /\ r.Tokens[GetBaseCurrencyId][who] = Tokens[GetBaseCurrencyId][who] - r.event[5]
        /\ (inc[1] = 0 \/ inc[2] = 0 \/ inc[3] = 0) => r.result = "InvalidLiquidityIncrement"

\* C22: every successful add_liquidity(account, c, max_other, max_base) takes
\* increments with 0 < other_inc <= max_other and 0 < base_inc <= max_base
\* and mints share_inc > 0; a call whose computed increments contain a zero
\* fails with InvalidLiquidityIncrement.  Asked of every call the large-balance
\* runs can make.
C22_AcceptedLiquidityBounds ==
    ops < MaxLargeOps =>
        \A who \in Signers, c \in OtherCurrencyIds,
           max_other \in LargeAmounts, max_base \in LargeAmounts :
            AcceptedLiquidityRule(who, c, max_other, max_base)

====
